---- MODULE Spec2Model ----
(***************************************************************************)
(* Model of src/lib.rs of ctclsite: the site configuration loader          *)
(* (loadconfig), the favicon generator (mkfavicons), the static asset      *)
(* collector (collectstatic), the JS publisher (buildjs), the directory    *)
(* helper (mkdir) and the markdown renderer (mdpath2html / read_file).     *)
(*                                                                         *)
(* A path is a sequence of components (strings).  The output tree is the   *)
(* pair (dirs, files): the set of directories that exist and the set of    *)
(* <<path, content>> pairs of the files that exist.                        *)
(***************************************************************************)
EXTENDS Integers, Sequences, FiniteSets, TLC

VARIABLES
    themesDisk,   \* what loadthemes finds on disk: theme id -> Theme
    pagesDisk,    \* what loadpages finds on disk: set of page ids
    fault,        \* the I/O fault the environment currently has (or NoFault)
    pc,           \* position of the thread running loadconfig
    siteconfig,   \* the SiteConfig under construction (fonts, themes, pages)
    dirs,         \* output tree: directories that exist
    files,        \* output tree: <<path, content>> of the files that exist
    todoThemes,   \* mkfavicons: theme ids the for loop has not visited yet
    walk,         \* collectstatic: items the WalkDir iterator has not yielded yet
    todoStatic,   \* collectstatic: entries read_dir(staticdir) has not yielded yet
    result,       \* outcome of loadconfig
    completed,    \* steps of loadconfig that returned successfully, in order
    failures,     \* per-item failures met in this run of loadconfig
    nwrites,      \* per theme: favicon writes performed in this run
    collected,    \* the first run that finished collectstatic, and its fault
    run,          \* number of the current run of loadconfig
    jsResult,     \* outcome of the last buildjs call
    mdInput,      \* input of the last mdpath2html call
    mdResult      \* outcome of the last mdpath2html call

vars == <<themesDisk, pagesDisk, fault, pc, siteconfig, dirs, files, todoThemes,
          walk, todoStatic, result, completed, failures, nwrites, collected,
          run, jsResult, mdInput, mdResult>>

\* Number of times the operator restarts the process (loadconfig runs).
MaxRuns == 2

-----------------------------------------------------------------------------
(* Paths and the output tree *)

NoPath == <<>>

Parent(p) == SubSeq(p, 1, Len(p) - 1)

IsPrefix(pre, p) == Len(pre) <= Len(p) /\ SubSeq(p, 1, Len(pre)) = pre

\* str::strip_prefix: Some(rest) when the prefix matches, None otherwise.
StripPrefix(p, pre) ==
    IF IsPrefix(pre, p)
        THEN [some |-> TRUE, rest |-> SubSeq(p, Len(pre) + 1, Len(p))]
        ELSE [some |-> FALSE, rest |-> NoPath]

Paths(fs) == {f[1] : f \in fs}

FileExists(fs, p) == p \in Paths(fs)

Content(fs, p) == (CHOOSE f \in fs : f[1] = p)[2]

\* Creating or truncating a file: the old content, if any, is replaced.
WriteFile(fs, p, c) == {f \in fs : f[1] # p} \cup {<<p, c>>}

StaticRoot == <<"static">>
FaviconDir == <<"static", "favicons">>
PagesOut   == <<"static", "pages">>
JsOut      == <<"static", "js">>

-----------------------------------------------------------------------------
(* Outcomes *)

NoResult == [kind |-> "none", errkind |-> "-", path |-> NoPath, stage |-> "-"]
OkResult == [kind |-> "Ok", errkind |-> "-", path |-> NoPath, stage |-> "-"]
ErrResult(k, p, st) == [kind |-> "Err", errkind |-> k, path |-> p, stage |-> st]
PanicResult(st) == [kind |-> "Panic", errkind |-> "-", path |-> NoPath, stage |-> st]

-----------------------------------------------------------------------------
(* Faults of the environment: at most one object is broken at a time *)

NoFault == [kind |-> "none", at |-> NoPath]
Fault(k, p) == [kind |-> k, at |-> p]

-----------------------------------------------------------------------------
(* mkdir, lines 258-274 *)

\* std::fs::create_dir: AlreadyExists when the path exists, another error when
\* the parent is missing or the directory cannot be created.
MkdirAlreadyExistsIsError(ds, path, broken) ==
    IF path \in ds \/ broken \/ (Len(path) > 1 /\ Parent(path) \notin ds)
        THEN [ok |-> FALSE, dirs |-> ds]
        ELSE [ok |-> TRUE, dirs |-> ds \cup {path}]

mkdir(ds, path, broken) ==
    IF path \in ds
        THEN [ok |-> TRUE, dirs |-> ds]
        ELSE IF broken \/ (Len(path) > 1 /\ Parent(path) \notin ds)
            THEN [ok |-> FALSE, dirs |-> ds]
            ELSE [ok |-> TRUE, dirs |-> ds \cup {path}]

\* std::fs::create_dir_all: the directory and every missing ancestor.
CreateDirAll(ds, path) == ds \cup {SubSeq(path, 1, n) : n \in 1..Len(path)}

\* std::fs::copy: fails when the source cannot be read or the destination's
\* directory does not exist; otherwise the destination holds the source's bytes.
CopyOk(ds, src, dst) == Parent(dst) \in ds /\ fault # Fault("copy", src)

\* Content of a file: an encoded image, a copy of a source file, or bytes some
\* earlier program left behind.
CopyOf(src) == [type |-> "copy", width |-> 0, height |-> 0, pixel |-> <<>>, src |-> src]

-----------------------------------------------------------------------------
(* Themes and the favicon image, lines 169-189 *)

ThemeIds == {"dark", "lite"}

\* Theme.color values found in theme files: a string is a sequence of characters.
ColorDark == <<"#", "2", "0", "2", "0", "2", "0">>
ColorLite == <<"f", "f", "8", "0", "0", "0">>
ColorBad  == <<"#", "2", "0", "2", "0", "g", "0">>
Colors == {ColorDark, ColorLite, ColorBad}

Theme(c) == [color |-> c]

\* The completed theme registries loadthemes may return.
ThemeRegistries ==
    UNION {[S -> {Theme(c) : c \in Colors}] : S \in SUBSET ThemeIds}

EmptyRegistry == [k \in {} |-> Theme(ColorDark)]

HexDigits == <<"0", "1", "2", "3", "4", "5", "6", "7", "8", "9",
               "a", "b", "c", "d", "e", "f">>

IsHexDigit(c) == \E i \in 1..Len(HexDigits) : HexDigits[i] = c

HexVal(c) == (CHOOSE i \in 1..Len(HexDigits) : HexDigits[i] = c) - 1

\* String::replace(ch, ""): every occurrence of ch is removed.
Replace(s, ch) == SelectSeq(s, LAMBDA c : c # ch)

\* hex::decode_to_slice(data, out) for an out slice of n bytes.
DecodeToSlice(data, n) ==
    IF Len(data) % 2 # 0
        THEN [ok |-> FALSE, bytes |-> <<>>]
    ELSE IF Len(data) \div 2 # n
        THEN [ok |-> FALSE, bytes |-> <<>>]
    ELSE IF \E i \in 1..Len(data) : ~IsHexDigit(data[i])
        THEN [ok |-> FALSE, bytes |-> <<>>]
    ELSE [ok |-> TRUE,
          bytes |-> [i \in 1..n |-> 16 * HexVal(data[2 * i - 1]) + HexVal(data[2 * i])]]

DecodeColor(color) == DecodeToSlice(Replace(color, "#"), 3)

IconSize == 16

\* RgbImage::new(16, 16) after put_pixel(x, y, Rgb(bytes)) for every x, y.
Icon(bytes) ==
    [type |-> "icon", width |-> IconSize, height |-> IconSize, pixel |-> bytes,
     src |-> NoPath]

\* Content of a file left in the output tree by something else than this run.
Stale == [type |-> "stale", width |-> 0, height |-> 0, pixel |-> <<>>, src |-> NoPath]

\* The path the existence test of line 175 looks at: a plain string literal,
\* no substitution of key.
FaviconCheckPath(key) == FaviconDir \o <<"default_{key}.ico">>

\* format!("static/favicons/default_{key}.ico"), lines 184.
FaviconPath(key) == FaviconDir \o <<"default_" \o key \o ".ico">>

\* One iteration of the for loop of mkfavicons, lines 173-186.
FaviconStep(fs, ds, key, theme) ==
    IF fault = Fault("exists", FaviconDir)
        THEN [outcome |-> "panic", why |-> "exists", files |-> fs]
    ELSE IF FileExists(fs, FaviconCheckPath(key))
        THEN [outcome |-> "skip", why |-> "-", files |-> fs]
    ELSE IF ~DecodeColor(theme.color).ok
        THEN [outcome |-> "panic", why |-> "hex", files |-> fs]
    ELSE IF fault = Fault("save", FaviconDir) \/ Parent(FaviconPath(key)) \notin ds
        THEN [outcome |-> "panic", why |-> "save", files |-> fs]
    ELSE [outcome |-> "write", why |-> "-",
          files |-> WriteFile(fs, FaviconPath(key), Icon(DecodeColor(theme.color).bytes))]

-----------------------------------------------------------------------------
(* The page-source tree, the global static directory and the JS directory *)

pagedir   == <<"cfg", "pages">>
staticdir == <<"cfg", "static">>

NoExt == "-"

Entry(rel, kind, ext) == [rel |-> rel, kind |-> kind, ext |-> ext]

\* The page-source tree in the order WalkDir yields it (a directory before
\* its contents).
Tree == << Entry(<<>>, "dir", NoExt),
           Entry(<<"about">>, "dir", NoExt),
           Entry(<<"about", "page.json">>, "file", "json"),
           Entry(<<"about", "me.png">>, "file", "png"),
           Entry(<<"about", "README">>, "file", NoExt),
           Entry(<<"top.md">>, "file", "md"),
           Entry(<<"draft.bak">>, "file", "bak") >>

TreeEntries == {Tree[i] : i \in 1..Len(Tree)}

\* SiteConfig.filetypes, line 147: extension -> ExtensionFileType (lines 98-112).
filetypes == [json |-> "Config", png |-> "Image", md |-> "Text"]

\* The match of lines 224-236: is a file with this extension copied?
PublishableCopiesConfig(ext) ==
    ext # NoExt /\ ext \in DOMAIN filetypes

Publishable(ext) ==
    /\ ext # NoExt
    /\ ext \in DOMAIN filetypes
    /\ filetypes[ext] # "Config"

\* Destination of a page-source entry, lines 217-220 and 228-231.
PageDest(path) ==
    IF StripPrefix(path, pagedir).some
        THEN PagesOut \o StripPrefix(path, pagedir).rest
        ELSE PagesOut \o path

\* WalkDir::new(pagedir).into_iter(): a sequence of Result items.  When a
\* directory cannot be read its own entry is yielded, then one Err in place
\* of its contents.
Below(e, d) == IsPrefix(d, e.rel) /\ e.rel # d

WalkDir(f) ==
    LET hidden(i) == f.kind = "walk" /\ Below(Tree[i], f.at)
        first(i)  == hidden(i) /\ \A j \in 1..(i - 1) : ~hidden(j)
        item(i)   == IF hidden(i)
                        THEN [ok |-> FALSE, entry |-> Entry(f.at, "dir", NoExt)]
                        ELSE [ok |-> TRUE, entry |-> Tree[i]]
        Build[i \in 0..Len(Tree)] ==
            IF i = 0 THEN <<>>
            ELSE IF hidden(i) /\ ~first(i) THEN Build[i - 1]
            ELSE Append(Build[i - 1], item(i))
    IN  Build[Len(Tree)]

StaticNames == {"style.css", "robots.txt"}

JsNames == {"main.js"}
JsDirs == {<<"js">>, <<"cfg", "js">>}

-----------------------------------------------------------------------------
(* Initial state: the process has parsed config.json, line 320 *)

Faults ==
    {NoFault, Fault("fonts", NoPath), Fault("themes", NoPath), Fault("pages", NoPath),
     Fault("mkdir", StaticRoot), Fault("mkdir", FaviconDir), Fault("mkdir", PagesOut),
     Fault("exists", FaviconDir), Fault("save", FaviconDir),
     Fault("walk", <<>>), Fault("walk", <<"about">>),
     Fault("createdirall", PagesOut \o <<"about">>),
     Fault("copy", pagedir \o <<"about", "me.png">>),
     Fault("copy", pagedir \o <<"top.md">>),
     Fault("readdir", staticdir),
     Fault("direntry", staticdir \o <<"robots.txt">>),
     Fault("copy", staticdir \o <<"style.css">>),
     Fault("copy", <<"js", "main.js">>)}

\* What the output directory may hold before the first run.
PriorOutputs ==
    {[dirs |-> {}, files |-> {}],
     [dirs |-> {StaticRoot, FaviconDir},
      files |-> {<<FaviconPath("dark"), Stale>>}],
     [dirs |-> {StaticRoot, FaviconDir},
      files |-> {<<FaviconCheckPath("dark"), Stale>>}],
     [dirs |-> {StaticRoot, FaviconDir},
      files |-> {<<FaviconPath("dark"), Stale>>, <<FaviconCheckPath("dark"), Stale>>}]}

PageRegistries == {{}, {"home"}}

EmptyConfig == [fonts |-> {}, themes |-> EmptyRegistry, pages |-> {}]

NoMdInput == [file |-> "-", headerids |-> FALSE]
NoMdResult == [kind |-> "none", errkind |-> "-", header_ids |-> FALSE]

Init ==
    /\ themesDisk \in ThemeRegistries
    /\ pagesDisk \in PageRegistries
    /\ fault \in Faults
    /\ pc = "mkdir"
    /\ siteconfig = EmptyConfig
    /\ \E o \in PriorOutputs : dirs = o.dirs /\ files = o.files
    /\ todoThemes = {}
    /\ walk = <<>>
    /\ todoStatic = {}
    /\ result = NoResult
    /\ completed = <<>>
    /\ failures = {}
    /\ nwrites = [t \in ThemeIds |-> 0]
    /\ collected = [done |-> FALSE, fault |-> NoFault, run |-> 0]
    /\ run = 1
    /\ jsResult = NoResult
    /\ mdInput = NoMdInput
    /\ mdResult = NoMdResult

-----------------------------------------------------------------------------
(* loadconfig, lines 319-354 *)

\* The statement that follows each step in the body of loadconfig.
NextStepCollectFirst(step) ==
    CASE step = "mkdir"         -> "loadfonts"
      [] step = "loadfonts"     -> "loadthemes"
      [] step = "loadthemes"    -> "collectstatic"
      [] step = "collectstatic" -> "mkfavicons"
      [] step = "mkfavicons"    -> "loadpages"
      [] step = "loadpages"     -> "checks"
      [] step = "checks"        -> "done"

NextStep(step) ==
    CASE step = "mkdir"         -> "loadfonts"
      [] step = "loadfonts"     -> "loadthemes"
      [] step = "loadthemes"    -> "mkfavicons"
      [] step = "mkfavicons"    -> "collectstatic"
      [] step = "collectstatic" -> "loadpages"
      [] step = "loadpages"     -> "checks"
      [] step = "checks"        -> "done"

\* The step of loadconfig a position belongs to.
StepOf(p) ==
    CASE p = "favloop"                  -> "mkfavicons"
      [] p \in {"walk", "staticloop"}   -> "collectstatic"
      [] OTHER                          -> p

\* Kinds of std::io::Error the external loaders may return.
LoaderErrKinds == {"NotFound", "Other"}

Failure(k, p) == [kind |-> k, at |-> p]

\* loadconfig returns or unwinds with res; f is the set of failures just met.
Finish(res, f) ==
    /\ pc' = "done"
    /\ result' = res
    /\ failures' = failures \cup f

\* The current step returned Ok: control moves to the next statement.
Advance(step) ==
    /\ pc' = NextStep(step)
    /\ completed' = Append(completed, step)

\* Line 322: mkdir("static/")?
MkdirStatic ==
    /\ pc = "mkdir"
    /\ LET r == mkdir(dirs, StaticRoot, fault = Fault("mkdir", StaticRoot))
       IN  IF r.ok
               THEN /\ dirs' = r.dirs
                    /\ Advance("mkdir")
                    /\ UNCHANGED <<result, failures>>
               ELSE /\ Finish(ErrResult("Other", StaticRoot, "mkdir"), {})
                    /\ UNCHANGED <<dirs, completed>>
    /\ UNCHANGED <<themesDisk, pagesDisk, fault, siteconfig, files, todoThemes, walk,
                   todoStatic, nwrites, collected, run, jsResult, mdInput, mdResult>>

\* Lines 324-327: siteconfig.fonts = loadfonts(&siteconfig), Err(e) => return Err(e)
LoadFonts ==
    /\ pc = "loadfonts"
    /\ IF fault.kind = "fonts"
           THEN /\ \E k \in LoaderErrKinds :
                       Finish(ErrResult(k, NoPath, "loadfonts"), {Failure("font", NoPath)})
                /\ UNCHANGED <<siteconfig, completed>>
           ELSE /\ siteconfig' = [siteconfig EXCEPT !.fonts = {"font"}]
                /\ Advance("loadfonts")
                /\ UNCHANGED <<result, failures>>
    /\ UNCHANGED <<themesDisk, pagesDisk, fault, dirs, files, todoThemes, walk,
                   todoStatic, nwrites, collected, run, jsResult, mdInput, mdResult>>

\* Lines 330-333: siteconfig.themes = loadthemes(&siteconfig), Err(e) => return Err(e)
LoadThemes ==
    /\ pc = "loadthemes"
    /\ IF fault.kind = "themes"
           THEN /\ \E k \in LoaderErrKinds :
                       Finish(ErrResult(k, NoPath, "loadthemes"), {Failure("theme", NoPath)})
                /\ UNCHANGED <<siteconfig, completed>>
           ELSE /\ siteconfig' = [siteconfig EXCEPT !.themes = themesDisk]
                /\ Advance("loadthemes")
                /\ UNCHANGED <<result, failures>>
    /\ UNCHANGED <<themesDisk, pagesDisk, fault, dirs, files, todoThemes, walk,
                   todoStatic, nwrites, collected, run, jsResult, mdInput, mdResult>>

-----------------------------------------------------------------------------
(* mkfavicons, lines 169-189, called at line 335 *)

\* Line 171: mkdir("static/favicons/")?, then the for loop starts.
MkfaviconsEnter ==
    /\ pc = "mkfavicons"
    /\ LET r == mkdir(dirs, FaviconDir, fault = Fault("mkdir", FaviconDir))
       IN  IF r.ok
               THEN /\ dirs' = r.dirs
                    /\ todoThemes' = DOMAIN siteconfig.themes
                    /\ pc' = "favloop"
                    /\ UNCHANGED <<result, failures>>
               ELSE /\ Finish(ErrResult("Other", FaviconDir, "mkfavicons"), {})
                    /\ UNCHANGED <<dirs, todoThemes>>
    /\ UNCHANGED <<themesDisk, pagesDisk, fault, siteconfig, files, walk, todoStatic,
                   completed, nwrites, collected, run, jsResult, mdInput, mdResult>>

\* Lines 173-186: one iteration; a HashMap is iterated in no particular order.
FaviconLoop ==
    /\ pc = "favloop"
    /\ \E key \in todoThemes :
          LET r == FaviconStep(files, dirs, key, siteconfig.themes[key])
          IN  /\ files' = r.files
              /\ IF r.outcome = "panic"
                     THEN /\ Finish(PanicResult("mkfavicons"),
                                    {Failure(r.why, FaviconPath(key))})
                          /\ UNCHANGED <<todoThemes, nwrites>>
                     ELSE /\ todoThemes' = todoThemes \ {key}
                          /\ nwrites' = IF r.outcome = "write"
                                            THEN [nwrites EXCEPT ![key] = @ + 1]
                                            ELSE nwrites
                          /\ UNCHANGED <<pc, result, failures>>
    /\ UNCHANGED <<themesDisk, pagesDisk, fault, siteconfig, dirs, walk, todoStatic,
                   completed, collected, run, jsResult, mdInput, mdResult>>

\* Line 188: Ok(()), and loadconfig goes on after line 335.
MkfaviconsReturn ==
    /\ pc = "favloop"
    /\ todoThemes = {}
    /\ Advance("mkfavicons")
    /\ UNCHANGED <<themesDisk, pagesDisk, fault, siteconfig, dirs, files, todoThemes,
                   walk, todoStatic, result, failures, nwrites, collected, run,
                   jsResult, mdInput, mdResult>>

-----------------------------------------------------------------------------
(* collectstatic, lines 212-256, called at lines 336-339 *)

\* Line 213: mkdir("static/pages/")?, then the walk of line 215 starts.
CollectstaticEnter ==
    /\ pc = "collectstatic"
    /\ LET r == mkdir(dirs, PagesOut, fault = Fault("mkdir", PagesOut))
       IN  IF r.ok
               THEN /\ dirs' = r.dirs
                    /\ walk' = WalkDir(fault)
                    /\ pc' = "walk"
                    /\ UNCHANGED <<result, failures>>
               ELSE /\ Finish(ErrResult("Other", PagesOut, "collectstatic"), {})
                    /\ UNCHANGED <<dirs, walk>>
    /\ UNCHANGED <<themesDisk, pagesDisk, fault, siteconfig, files, todoThemes,
                   todoStatic, completed, nwrites, collected, run, jsResult, mdInput,
                   mdResult>>

\* Lines 215-238: the next item of the walk.  filter_map(|e| e.ok()) drops an
\* Err item; a directory is mirrored; a file is copied when its type says so.
WalkStep ==
    /\ pc = "walk"
    /\ walk # <<>>
    /\ LET item == Head(walk)
           e    == item.entry
           path == pagedir \o e.rel
           dst  == PageDest(path)
       IN  IF ~item.ok
               THEN /\ walk' = Tail(walk)
                    /\ failures' = failures \cup {Failure("walk", path)}
                    /\ UNCHANGED <<pc, result, dirs, files>>
           ELSE IF e.kind = "dir"
               THEN IF fault = Fault("createdirall", dst)
                        THEN /\ Finish(ErrResult("Other", NoPath, "collectstatic"),
                                       {Failure("createdirall", dst)})
                             /\ UNCHANGED <<walk, dirs, files>>
                        ELSE /\ dirs' = CreateDirAll(dirs, dst)
                             /\ walk' = Tail(walk)
                             /\ UNCHANGED <<pc, result, failures, files>>
           ELSE IF ~Publishable(e.ext)
               THEN /\ walk' = Tail(walk)
                    /\ UNCHANGED <<pc, result, failures, dirs, files>>
           ELSE IF CopyOk(dirs, path, dst)
               THEN /\ files' = WriteFile(files, dst, CopyOf(path))
                    /\ walk' = Tail(walk)
                    /\ UNCHANGED <<pc, result, failures, dirs>>
               ELSE /\ Finish(PanicResult("collectstatic"), {Failure("copy", path)})
                    /\ UNCHANGED <<walk, dirs, files>>
    /\ UNCHANGED <<themesDisk, pagesDisk, fault, siteconfig, todoThemes, todoStatic,
                   completed, nwrites, collected, run, jsResult, mdInput, mdResult>>

\* Lines 240-241 and 252: the walk is over, fs::read_dir(&sitecfg.staticdir).
ReadStaticDir ==
    /\ pc = "walk"
    /\ walk = <<>>
    /\ IF fault = Fault("readdir", staticdir)
           THEN /\ Finish(ErrResult("Other", NoPath, "collectstatic"),
                          {Failure("readdir", staticdir)})
                /\ UNCHANGED todoStatic
           ELSE /\ todoStatic' = StaticNames
                /\ pc' = "staticloop"
                /\ UNCHANGED <<result, failures>>
    /\ UNCHANGED <<themesDisk, pagesDisk, fault, siteconfig, dirs, files, todoThemes,
                   walk, completed, nwrites, collected, run, jsResult, mdInput,
                   mdResult>>

\* Destination of an entry of the global static directory, line 244.
StaticDest(path) == StaticRoot \o StripPrefix(path, staticdir).rest

\* Lines 242-250: one entry of read_dir, which yields them in no particular order.
StaticStep ==
    /\ pc = "staticloop"
    /\ \E name \in todoStatic :
          LET path == staticdir \o <<name>>
          IN  IF fault = Fault("direntry", path)
                  THEN /\ Finish(ErrResult("Other", NoPath, "collectstatic"),
                                 {Failure("direntry", path)})
                       /\ UNCHANGED <<todoStatic, files>>
              ELSE IF ~StripPrefix(path, staticdir).some
                  THEN /\ Finish(PanicResult("collectstatic"), {})
                       /\ UNCHANGED <<todoStatic, files>>
              ELSE IF CopyOk(dirs, path, StaticDest(path))
                  THEN /\ files' = WriteFile(files, StaticDest(path), CopyOf(path))
                       /\ todoStatic' = todoStatic \ {name}
                       /\ UNCHANGED <<pc, result, failures>>
                  ELSE /\ Finish(ErrResult("Other", path, "collectstatic"),
                                 {Failure("copy", path)})
                       /\ UNCHANGED <<todoStatic, files>>
    /\ UNCHANGED <<themesDisk, pagesDisk, fault, siteconfig, dirs, todoThemes, walk,
                   completed, nwrites, collected, run, jsResult, mdInput, mdResult>>

\* Line 255: Ok(()), and loadconfig goes on after line 339.
CollectstaticReturn ==
    /\ pc = "staticloop"
    /\ todoStatic = {}
    /\ Advance("collectstatic")
    /\ collected' = IF collected.done THEN collected ELSE [done |-> TRUE, fault |-> fault, run |-> run]
    /\ UNCHANGED <<themesDisk, pagesDisk, fault, siteconfig, dirs, files, todoThemes,
                   walk, todoStatic, result, failures, nwrites, run, jsResult, mdInput,
                   mdResult>>

-----------------------------------------------------------------------------
(* loadconfig, lines 341-353 *)

\* Line 342: siteconfig.pages = loadpages(&siteconfig)?
LoadPages ==
    /\ pc = "loadpages"
    /\ IF fault.kind = "pages"
           THEN /\ \E k \in LoaderErrKinds :
                       Finish(ErrResult(k, NoPath, "loadpages"), {Failure("page", NoPath)})
                /\ UNCHANGED <<siteconfig, completed>>
           ELSE /\ siteconfig' = [siteconfig EXCEPT !.pages = pagesDisk]
                /\ Advance("loadpages")
                /\ UNCHANGED <<result, failures>>
    /\ UNCHANGED <<themesDisk, pagesDisk, fault, dirs, files, todoThemes, walk,
                   todoStatic, nwrites, collected, run, jsResult, mdInput, mdResult>>

\* Lines 344-353: the two emptiness tests and Ok(siteconfig).
PostCheckPagesOnly(cfg) ==
    IF cfg.pages = {}
        THEN ErrResult("NotFound", NoPath, "checks")
        ELSE OkResult

PostCheck(cfg) ==
    IF cfg.pages = {}
        THEN ErrResult("NotFound", NoPath, "checks")
    ELSE IF DOMAIN cfg.themes = {}
        THEN ErrResult("NotFound", NoPath, "checks")
    ELSE OkResult

Checks ==
    /\ pc = "checks"
    /\ result' = PostCheck(siteconfig)
    /\ IF PostCheck(siteconfig).kind = "Ok"
           THEN Advance("checks")
           ELSE pc' = "done" /\ UNCHANGED completed
    /\ UNCHANGED <<themesDisk, pagesDisk, fault, siteconfig, dirs, files, todoThemes,
                   walk, todoStatic, failures, nwrites, collected, run, jsResult,
                   mdInput, mdResult>>

\* The operator fixes (or does not fix) what was broken and starts the process
\* again over the output tree the earlier run left.
Restart ==
    /\ pc = "done"
    /\ run < MaxRuns
    /\ run' = run + 1
    /\ fault' \in {fault, NoFault}
    /\ pc' = "mkdir"
    /\ siteconfig' = EmptyConfig
    /\ todoThemes' = {}
    /\ walk' = <<>>
    /\ todoStatic' = {}
    /\ result' = NoResult
    /\ completed' = <<>>
    /\ failures' = {}
    /\ nwrites' = [t \in ThemeIds |-> 0]
    /\ jsResult' = NoResult
    /\ mdInput' = NoMdInput
    /\ mdResult' = NoMdResult
    /\ UNCHANGED <<themesDisk, pagesDisk, dirs, files, collected>>

-----------------------------------------------------------------------------
(* buildjs, lines 191-210 *)

\* Line 198: format!("static/{}", rd.path().to_string_lossy())
BuildjsDest(path) == StaticRoot \o path

\* The output files after the entries named in S have been copied.
CopyAll(fs, jsdir, S) ==
    {f \in fs : f[1] \notin {BuildjsDest(jsdir \o <<n>>) : n \in S}}
        \cup {<<BuildjsDest(jsdir \o <<n>>), CopyOf(jsdir \o <<n>>)>> : n \in S}

\* A call of buildjs with a SiteConfig whose jsdir is one of JsDirs.
Buildjs ==
    /\ pc = "done"
    /\ jsResult = NoResult
    /\ \E jsdir \in JsDirs :
          LET r   == mkdir(dirs, JsOut, fault = Fault("mkdir", JsOut))
              bad == {n \in JsNames :
                        ~CopyOk(r.dirs, jsdir \o <<n>>, BuildjsDest(jsdir \o <<n>>))}
          IN  IF ~r.ok
                  THEN /\ jsResult' = ErrResult("Other", JsOut, "buildjs")
                       /\ UNCHANGED <<dirs, files>>
              ELSE IF fault = Fault("readdir", jsdir)
                  THEN /\ jsResult' = ErrResult("Other", NoPath, "buildjs")
                       /\ dirs' = r.dirs
                       /\ UNCHANGED files
              ELSE IF bad = {}
                  THEN /\ jsResult' = OkResult
                       /\ dirs' = r.dirs
                       /\ files' = CopyAll(files, jsdir, JsNames)
                  ELSE /\ jsResult' = ErrResult("Other", NoPath, "buildjs")
                       /\ dirs' = r.dirs
                       /\ \E S \in SUBSET (JsNames \ bad) : files' = CopyAll(files, jsdir, S)
    /\ UNCHANGED <<themesDisk, pagesDisk, fault, pc, siteconfig, todoThemes, walk,
                   todoStatic, result, completed, failures, nwrites, collected, run,
                   mdInput, mdResult>>

-----------------------------------------------------------------------------
(* read_file, lines 276-289, and mdpath2html, lines 303-317 *)

\* What the file system holds at the path given to mdpath2html.
MdFileStates == {"readable", "missing", "denied", "notutf8"}

\* read_file: File::open, then read_to_string with the ? operator.
read_file(st) ==
    CASE st = "missing"  -> [ok |-> FALSE, errkind |-> "NotFound"]
      [] st = "denied"   -> [ok |-> FALSE, errkind |-> "Other"]
      [] st = "notutf8"  -> [ok |-> FALSE, errkind |-> "InvalidData"]
      [] st = "readable" -> [ok |-> TRUE, errkind |-> "-"]

mdpath2html(st, headerids) ==
    IF read_file(st).ok
        THEN [kind |-> "Ok", errkind |-> "-", header_ids |-> headerids]
        ELSE [kind |-> "Err", errkind |-> "Other", header_ids |-> FALSE]

\* A page or a section body is rendered.
Render ==
    /\ pc = "done"
    /\ mdResult = NoMdResult
    /\ \E st \in MdFileStates, headerids \in BOOLEAN :
          /\ mdInput' = [file |-> st, headerids |-> headerids]
          /\ mdResult' = mdpath2html(st, headerids)
    /\ UNCHANGED <<themesDisk, pagesDisk, fault, pc, siteconfig, dirs, files,
                   todoThemes, walk, todoStatic, result, completed, failures, nwrites,
                   collected, run, jsResult>>

-----------------------------------------------------------------------------

Next ==
    \/ MkdirStatic
    \/ LoadFonts
    \/ LoadThemes
    \/ MkfaviconsEnter
    \/ FaviconLoop
    \/ MkfaviconsReturn
    \/ CollectstaticEnter
    \/ WalkStep
    \/ ReadStaticDir
    \/ StaticStep
    \/ CollectstaticReturn
    \/ LoadPages
    \/ Checks
    \/ Restart
    \/ Buildjs
    \/ Render

Spec == Init /\ [][Next]_vars

-----------------------------------------------------------------------------
(* Properties *)

Done(step) == \E i \in 1..Len(completed) : completed[i] = step

WellFormed(theme) == DecodeColor(theme.color).ok

\* C1: favicon generation is idempotent per theme: while mkfavicons runs, a
\* favicon default_<T>.ico that already exists is not written and keeps its
\* contents.
C1_FaviconIdempotent ==
    [][pc = "favloop" =>
          \A T \in DOMAIN siteconfig.themes :
              FileExists(files, FaviconPath(T)) =>
                  /\ nwrites'[T] = nwrites[T]
                  /\ Content(files', FaviconPath(T)) = Content(files, FaviconPath(T))]_vars

\* C2: once mkfavicons has returned Ok, every theme of the registry with a
\* well-formed color has its favicon default_<T>.ico, a 16x16 image whose pixels
\* are the three bytes decoded from the color, whatever the output directory
\* held before.
C2_FaviconPostcondition ==
    Done("mkfavicons") =>
        \A T \in DOMAIN siteconfig.themes :
            WellFormed(siteconfig.themes[T]) =>
                /\ FileExists(files, FaviconPath(T))
                /\ Content(files, FaviconPath(T)) =
                       Icon(DecodeColor(siteconfig.themes[T].color).bytes)

IsConfig(e) ==
    e.kind = "file" /\ e.ext \in DOMAIN filetypes /\ filetypes[e.ext] = "Config"

\* C3: in every state, no file of the page-source tree whose extension is typed
\* Config has a copy under static/pages/.
C3_NoConfigPublished ==
    \A e \in TreeEntries :
        IsConfig(e) =>
            /\ PageDest(pagedir \o e.rel) \notin Paths(files)
            /\ \A f \in files :
                   IsPrefix(PagesOut, f[1]) => f[2] # CopyOf(pagedir \o e.rel)

\* The walk went past the config file about/page.json and published its
\* neighbour about/me.png.
C3_Witness ==
    /\ Done("collectstatic")
    /\ \E e \in TreeEntries : IsConfig(e)
    /\ FileExists(files, PagesOut \o <<"about", "me.png">>)
    /\ FileExists(files, PagesOut \o <<"top.md">>)

\* The order of the steps that the loader has to keep.
Order == <<"mkdir", "loadfonts", "loadthemes", "mkfavicons", "collectstatic",
           "loadpages", "checks">>

\* C4: the steps of loadconfig run in the fixed order, a step starting only
\* when all the earlier ones have returned successfully; the theme registry is
\* populated while favicons are generated, assets collected and pages loaded;
\* the favicon loop and the collection loops are never under way together.
C4_FixedOrder ==
    /\ Len(completed) <= Len(Order)
    /\ \A i \in 1..Len(completed) : completed[i] = Order[i]
    /\ pc # "done" => /\ Len(completed) < Len(Order)
                      /\ StepOf(pc) = Order[Len(completed) + 1]
    /\ result.kind = "Ok" => completed = Order
    /\ StepOf(pc) \in {"mkfavicons", "collectstatic", "loadpages", "checks"}
           => siteconfig.themes = themesDisk
    /\ StepOf(pc) \in {"mkdir", "loadfonts", "loadthemes"}
           => siteconfig.themes = EmptyRegistry
    /\ StepOf(pc) = "mkfavicons" => walk = <<>> /\ todoStatic = {}
    /\ StepOf(pc) = "collectstatic" => todoThemes = {}
    /\ (todoThemes # {} /\ pc # "done") => pc = "favloop"
    /\ ((walk # <<>> \/ todoStatic # {}) /\ pc # "done") => pc \in {"walk", "staticloop"}

\* A load ran through all seven steps, with themes to generate favicons for.
C4_Witness ==
    /\ pc = "done"
    /\ result.kind = "Ok"
    /\ completed = Order
    /\ DOMAIN siteconfig.themes = ThemeIds

\* C5: every Ok outcome has a non-empty page registry and a non-empty theme
\* registry, and a load whose loading steps all returned but whose page or
\* theme registry is empty ends with an error of kind NotFound.
C5_EmptyRegistryNotFound ==
    /\ result.kind = "Ok" =>
           siteconfig.pages # {} /\ DOMAIN siteconfig.themes # {}
    /\ (pc = "done" /\ Done("loadpages")
            /\ (siteconfig.pages = {} \/ DOMAIN siteconfig.themes = {}))
           => result.kind = "Err" /\ result.errkind = "NotFound"

\* The load reached the checks with pages but without any theme.
C5_Witness ==
    /\ pc = "done"
    /\ Done("loadpages")
    /\ siteconfig.pages # {}
    /\ DOMAIN siteconfig.themes = {}
    /\ result.errkind = "NotFound"

\* C6: a failed file copy in collectstatic, in either pass, is returned to the
\* caller as an Err that identifies the path of the file.
C6_CopyFailureReturned ==
    \A f \in failures :
        f.kind = "copy" => result.kind = "Err" /\ result.path = f.at

\* C7: a load that met a per-item failure (font, theme, hex color, unreadable
\* entry of the walk, copy, page) does not end with an Ok snapshot.
C7_NoFailureSkipped ==
    result.kind = "Ok" => failures = {}

\* C8: mdpath2html returns NotFound when the path does not exist, another
\* error kind for any other I/O fault, and Ok only when the file was read.
C8_RenderErrorKinds ==
    mdResult # NoMdResult =>
        /\ mdInput.file = "missing" =>
               mdResult.kind = "Err" /\ mdResult.errkind = "NotFound"
        /\ mdInput.file \in {"denied", "notutf8"} =>
               mdResult.kind = "Err" /\ mdResult.errkind # "NotFound"
        /\ mdResult.kind = "Ok" => mdInput.file = "readable"

\* C9: after a successful load every file of the JS directory has a copy at
\* static/js/<name>.
C9_JsPublished ==
    (pc = "done" /\ result.kind = "Ok") =>
        \A n \in JsNames : FileExists(files, JsOut \o <<n>>)

\* C10: over an output tree that already holds directories and files, mkdir,
\* mkfavicons and collectstatic do not fail unless something is broken or a
\* color is malformed, and a later collectstatic over the inputs of an earlier
\* complete one changes nothing in the output tree.
C10_RerunRecovers ==
    /\ []((fault = NoFault /\ result.kind \in {"Err", "Panic"}) =>
              /\ result.stage \notin {"mkdir", "collectstatic"}
              /\ result.stage = "mkfavicons" => \E f \in failures : f.kind = "hex")
    /\ [][(/\ collected.done
           /\ run > collected.run
           /\ WalkDir(collected.fault) = WalkDir(fault)
           /\ StepOf(pc) = "collectstatic")
             => (files' = files /\ dirs' = dirs)]_vars

\* A second run over the tree of a first run that finished its collection,
\* itself successful.
C10_Witness ==
    /\ run = 2
    /\ collected.done
    /\ collected.run = 1
    /\ pc = "done"
    /\ result.kind = "Ok"
    /\ FileExists(files, PagesOut \o <<"top.md">>)

====
